---- MODULE Spec2Model ----
(***************************************************************************)
(* Model of the Dgraph adapter (packages/adapter-dgraph/src/index.ts).     *)
(*                                                                         *)
(* Every adapter method is a sequence of transport requests (c.run).  One  *)
(* action of the model is one round trip: the request is handled           *)
(* atomically by the backend and the handler's code runs up to its next    *)
(* request or to its return/throw.  deleteUser is the only method with     *)
(* more than one request, so it is the only one with a position (pc); its  *)
(* invocations live in `calls` and may interleave with everything else.    *)
(* `last` is the most recently finished invocation with what the caller    *)
(* saw: the value returned or the error thrown, and the requests issued.   *)
(* `returned` counts, per user id, the deleteUser invocations that have    *)
(* returned a record to their caller.                                      *)
(***************************************************************************)
EXTENDS Integers, Sequences, FiniteSets, TLC

VARIABLES users, accounts, sessions, tokens, nextUserId, nextAccountId,
          calls, last, spent, returned

vars == <<users, accounts, sessions, tokens, nextUserId, nextAccountId,
          calls, last, spent, returned>>

backend == <<users, accounts, sessions, tokens, nextUserId, nextAccountId>>

----------------------------------------------------------------------------
(* Bounds *)

MaxUsers == 1
MaxAccounts == 1
MaxCalls == 2
NumEmails == 1
NumKeys == 1
NumSessionTokens == 1
NumTokens == 1

\* ids a caller may pass: the ids the backend can assign and one it never assigns
AnyUserIds == 0..MaxUsers
CallIds == 1..MaxCalls
Emails == 1..NumEmails
\* an account key stands for a (provider, providerAccountId) pair
AccountKeys == 1..NumKeys
SessionTokens == 1..NumSessionTokens
\* a verification pair stands for an (identifier, token) pair
TokenPairs == 1..NumTokens

----------------------------------------------------------------------------
(* JavaScript values seen by the handlers *)

Null == [k |-> "null"]
Undefined == [k |-> "undefined"]
Value(v) == [k |-> "value", v |-> v]
Throw(m) == [k |-> "throw", msg |-> m]

\* the errors the transport raises (network failure, GraphQL error)
TransportErrors == {"NetworkError", "GraphQLError"}

\* a response object that carries the record list l under its field
RespList(l) == [k |-> "list", list |-> l]
\* a response object without the record list
RespNoList == [k |-> "obj"]

\* !result
IsFalsy(r) == r.k \in {"null", "undefined"}

\* result?.field?.[0]
First(r) == IF r.k = "list" /\ Len(r.list) > 0 THEN r.list[1] ELSE Undefined

\* x || null
OrNull(x) == IF IsFalsy(x) THEN Null ELSE x

\* x?.user and x?.session on an element of a joined result
UserOf(x) == IF x.k = "value" THEN x.v.user ELSE Undefined
SessionOf(x) == IF x.k = "value" THEN x.v.session ELSE Undefined

\* the outcome of `await c.run(...)` followed by code computing v: an error
\* thrown by the transport is not caught and ends the handler
Await(r, v) == IF r.k = "throw" THEN r ELSE v

\* the responses by which the backend reports that a mutation produced no
\* record: no data, data without the record list, an empty record list
NoRecord == {Null, RespNoList, RespList(<<>>)}

----------------------------------------------------------------------------
(* The backend: what the queries and mutations of the handlers do to the   *)
(* stored records, each request handled atomically                         *)

RECURSIVE SortById(_)
SortById(S) ==
  IF S = {} THEN <<>>
  ELSE LET m == CHOOSE x \in S : \A y \in S : x.id <= y.id
       IN <<Value(m)>> \o SortById(S \ {m})

RECURSIVE ToList(_)
ToList(S) ==
  IF S = {} THEN <<>>
  ELSE LET m == CHOOSE x \in S : TRUE
       IN <<Value(m)>> \o ToList(S \ {m})

\* getUser(id: $id)
QueryGetUser(id) ==
  IF \E u \in users : u.id = id
  THEN Value(CHOOSE u \in users : u.id = id)
  ELSE Null

\* queryUser(filter: { email: { eq: $email } })
QueryUserByEmail(email) ==
  RespList(SortById({u \in users : u.email = email}))

\* queryAccount(filter: provider and providerAccountId) { user }
QueryAccountUser(key) ==
  LET matching == {a \in accounts : a.key = key}
      joined == {[id |-> a.id, user |-> QueryGetUser(a.userId)] : a \in matching}
  IN RespList(SortById(joined))

\* getUser(id: $userId) { ...UserFragment accounts { id } sessions { sessionToken } }
QueryUserWithLinks(userId) ==
  LET found == {u \in users : u.id = userId}
      withLinks == {[id |-> u.id, email |-> u.email,
                     accounts |-> {a.id : a \in {b \in accounts : b.userId = u.id}},
                     sessions |-> {s.sessionToken :
                                     s \in {t \in sessions : t.userId = u.id}}]
                    : u \in found}
  IN RespList(SortById(withLinks))

\* getSessionAndUser(filter: { sessionToken: { eq: $sessionToken } }) { session user }
QuerySessionAndUser(sessionToken) ==
  LET matching == {s \in sessions : s.sessionToken = sessionToken}
      joined == {[session |-> Value(s), user |-> QueryGetUser(s.userId)]
                 : s \in matching}
  IN RespList(ToList(joined))

\* the account keys (provider, providerAccountId) linked to a user
KeysOf(userId) == {a.key : a \in {b \in accounts : b.userId = userId}}

----------------------------------------------------------------------------
(* The handlers' own code: what each one makes of the transport's result r *)
(* (a response, or Throw(e) when the transport threw)                      *)

\* result.user is there (an empty array is truthy)
HasList(r) == r.k = "list"

\* const { id, ...userWithoutId } = user
UserWithoutId(user) == [email |-> user.email]

CreateUserResult(r) ==
  Await(r, IF IsFalsy(r) \/ ~HasList(r)
           THEN Throw("Failed to create user")
           ELSE First(r))

GetUserResult(r) == Await(r, r)


\* variant: the `|| null` is left out
GetUserByEmailResult_NoOrNull(r) == Await(r, First(r))

GetUserByEmailResult(r) == Await(r, OrNull(First(r)))

GetUserByAccountResult(r) == Await(r, OrNull(UserOf(First(r))))

UpdateUserResult(r) ==
  Await(r, IF IsFalsy(First(r))
           THEN Throw("Failed to update user")
           ELSE First(r))

LinkAccountResult(r) ==
  Await(r, IF IsFalsy(First(r))
           THEN Throw("Failed to link account")
           ELSE First(r))

UnlinkAccountResult(r) == Await(r, First(r))

GetSessionAndUserResult(r) ==
  Await(r, LET sessionAndUser == First(r)
           IN IF IsFalsy(sessionAndUser)
                 \/ IsFalsy(UserOf(sessionAndUser))
                 \/ IsFalsy(SessionOf(sessionAndUser))
              THEN Null
              ELSE sessionAndUser)


\* variant: the userId check is left out
UserIdMissing_Never(userId) == FALSE

\* userId === undefined
UserIdMissing(userId) == userId = Undefined

\* user: { id: userId }; an undefined id refers to no user (0 is never assigned)
UserReference(userId) == IF userId.k = "value" THEN userId.v ELSE 0

CreateSessionResult(r) ==
  Await(r, IF IsFalsy(First(r))
           THEN Throw("Failed to create session")
           ELSE First(r))

DeleteSessionResult(r) == Await(r, OrNull(First(r)))

CreateVerificationTokenResult(r) ==
  Await(r, LET createdToken == First(r)
           IN IF IsFalsy(createdToken)
              THEN Throw("Failed to create verification token")
              ELSE createdToken)

UseVerificationTokenResult(r) == Await(r, OrNull(First(r)))


\* variant: the request reads the record instead of deleting it
UseVerificationTokenDeletes_None(pair) == {}

\* useVerificationToken sends deleteVerificationToken(filter: token and
\* identifier): the stored records the request deletes
UseVerificationTokenDeletes(pair) == {t \in tokens : t.pair = pair}

\* deleteUser: const user = fetchResult?.user?.[0]
FetchedUser(r) == First(r)

\* deleteUser: { userId: [userId] }
DeleteUserVars(userId) == {userId}

\* variant: the record list itself is taken for the deleted record
DeletedUser_WholeList(r) == IF r.k = "list" THEN Value(r.list) ELSE Undefined

\* deleteUser: const deletedUser = deleteResult?.user?.[0]
DeletedUser(r) == First(r)


\* variant: the cascade request is sent whatever the fetched user had
CascadeNeeded_Always(accountIds, sessionTokens) == TRUE

\* deleteUser: user.accounts.length > 0 || user.sessions.length > 0
CascadeNeeded(accountIds, sessionTokens) ==
  Cardinality(accountIds) > 0 \/ Cardinality(sessionTokens) > 0

\* deleteUser: accountIds: user.accounts.map(...), sessionTokens: user.sessions.map(...)
CascadeVars(accountIds, sessionTokens) ==
  [accountIds |-> accountIds, sessionTokens |-> sessionTokens]


\* variant: a failure of the cascade request is swallowed
CascadeResult_Swallow(r, deletedUser) == deletedUser

\* deleteUser: the cascade request is awaited once and its error not caught
CascadeResult(r, deletedUser) == Await(r, deletedUser)

----------------------------------------------------------------------------
(* State *)

IdleCall ==
  [pc |-> "idle", userId |-> 0, accountIds |-> {}, sessionTokens |-> {},
   keys |-> {}, user |-> Null, log |-> <<>>, solo |-> TRUE]

NoCall ==
  [op |-> "none", arg |-> [none |-> TRUE], out |-> Undefined, log |-> <<>>,
   err |-> "none"]

Init ==
  /\ users = {}
  /\ accounts = {}
  /\ sessions = {}
  /\ tokens = {}
  /\ nextUserId = 0
  /\ nextAccountId = 0
  /\ calls = [c \in CallIds |-> IdleCall]
  /\ last = NoCall
  /\ spent = {}
  /\ returned = [id \in AnyUserIds |-> 0]

\* the errors with which the transport may fail a request (the request then
\* has no effect on the backend)
Failed == {Throw(e) : e \in TransportErrors}

\* a deleteUser invocation in flight notes that another request was handled
\* since its fetch (solo records "no other operation interleaved")
Disturbed(call) ==
  IF call.pc = "idle" THEN call ELSE [call EXCEPT !.solo = FALSE]

\* the error, if any, with which the transport answered a request
ErrorOf(r) == IF r.k = "throw" THEN r.msg ELSE "none"

\* an invocation ends: the caller gets `out` after the requests in `log`, the
\* last of which the transport answered with r
Finish(self, op, arg, r, out, log) ==
  /\ last' = [op |-> op, arg |-> arg, out |-> out, log |-> log,
              err |-> ErrorOf(r)]
  /\ returned' = IF op = "deleteUser" /\ out.k = "value"
                 THEN [returned EXCEPT ![arg.id] = IF @ < MaxCalls THEN @ + 1 ELSE @]
                 ELSE returned
  /\ calls' = [c \in CallIds |->
                 IF c = self THEN IdleCall ELSE Disturbed(calls[c])]

----------------------------------------------------------------------------
(* Single-request methods.  In each, r ranges over what the transport may  *)
(* answer: ok is the answer of the backend that handled the request; any   *)
(* other answer leaves the backend as it was.                              *)

CreateUser(user) ==
  /\ nextUserId < MaxUsers
  /\ LET created == [id |-> nextUserId + 1, email |-> UserWithoutId(user).email]
         ok == RespList(<<Value(created)>>)
     IN \E r \in Failed \cup NoRecord \cup {ok} :
          /\ IF r = ok
             THEN /\ users' = users \cup {created}
                  /\ nextUserId' = nextUserId + 1
                  /\ UNCHANGED <<accounts, sessions, tokens, nextAccountId>>
             ELSE UNCHANGED backend
          /\ Finish(0, "createUser", [email |-> user.email], r,
                    CreateUserResult(r), <<"addUser">>)
  /\ UNCHANGED spent

GetUser(id) ==
  /\ \E r \in Failed \cup {QueryGetUser(id)} :
       Finish(0, "getUser", [id |-> id], r, GetUserResult(r), <<"getUser">>)
  /\ UNCHANGED <<backend, spent>>

GetUserByEmail(email) ==
  /\ \E r \in Failed \cup {QueryUserByEmail(email)} :
       Finish(0, "getUserByEmail", [email |-> email], r,
              GetUserByEmailResult(r), <<"queryUser">>)
  /\ UNCHANGED <<backend, spent>>

GetUserByAccount(key) ==
  /\ \E r \in Failed \cup {QueryAccountUser(key)} :
       Finish(0, "getUserByAccount", [key |-> key], r,
              GetUserByAccountResult(r), <<"queryAccount">>)
  /\ UNCHANGED <<backend, spent>>

\* updateUser(input: { filter: { id: [$id] }, set: $input })
UpdateUser(user) ==
  /\ LET matching == {u \in users : u.id = user.id}
         updated == {[u EXCEPT !.email = user.email] : u \in matching}
         ok == RespList(SortById(updated))
     IN \E r \in Failed \cup NoRecord \cup {ok} :
          /\ IF r = ok
             THEN /\ users' = (users \ matching) \cup updated
                  /\ UNCHANGED <<accounts, sessions, tokens, nextUserId,
                                 nextAccountId>>
             ELSE UNCHANGED backend
          /\ Finish(0, "updateUser", [id |-> user.id, email |-> user.email], r,
                    UpdateUserResult(r), <<"updateUser">>)
  /\ UNCHANGED spent

\* the backend refuses (with a GraphQL error) a record whose user reference
\* names no stored user
UserReferenceAnswer(userId, created) ==
  IF \E u \in users : u.id = userId
  THEN RespList(<<Value(created)>>)
  ELSE Throw("GraphQLError")

\* callers link a (provider, providerAccountId) pair that is not linked yet
LinkAccount(account) ==
  /\ nextAccountId < MaxAccounts
  /\ \A a \in accounts : a.key # account.key
  /\ LET created == [id |-> nextAccountId + 1, key |-> account.key,
                     userId |-> account.userId]
         ok == UserReferenceAnswer(account.userId, created)
     IN \E r \in Failed \cup NoRecord \cup {ok} :
          /\ IF r = ok /\ r.k = "list"
             THEN /\ accounts' = accounts \cup {created}
                  /\ nextAccountId' = nextAccountId + 1
                  /\ UNCHANGED <<users, sessions, tokens, nextUserId>>
             ELSE UNCHANGED backend
          /\ Finish(0, "linkAccount",
                    [userId |-> account.userId, key |-> account.key], r,
                    LinkAccountResult(r), <<"addAccount">>)
  /\ UNCHANGED spent

UnlinkAccount(key) ==
  /\ LET matching == {a \in accounts : a.key = key}
         ok == RespList(SortById(matching))
     IN \E r \in Failed \cup {ok} :
          /\ IF r = ok
             THEN /\ accounts' = accounts \ matching
                  /\ UNCHANGED <<users, sessions, tokens, nextUserId,
                                 nextAccountId>>
             ELSE UNCHANGED backend
          /\ Finish(0, "unlinkAccount", [key |-> key], r,
                    UnlinkAccountResult(r), <<"deleteAccount">>)
  /\ UNCHANGED spent

GetSessionAndUser(sessionToken) ==
  /\ \E r \in Failed \cup {QuerySessionAndUser(sessionToken)} :
       Finish(0, "getSessionAndUser", [sessionToken |-> sessionToken], r,
              GetSessionAndUserResult(r), <<"getSessionAndUser">>)
  /\ UNCHANGED <<backend, spent>>

\* session.userId is Undefined or Value(id); callers create a session under a
\* session token that is not stored yet
CreateSession(session) ==
  /\ \A s \in sessions : s.sessionToken # session.sessionToken
  /\ LET arg == [sessionToken |-> session.sessionToken, userId |-> session.userId]
         created == [sessionToken |-> session.sessionToken,
                     userId |-> UserReference(session.userId)]
         ok == UserReferenceAnswer(UserReference(session.userId), created)
     IN IF UserIdMissing(session.userId)
        THEN /\ UNCHANGED backend
             /\ Finish(0, "createSession", arg, Null,
                       Throw("userId is undefined in createSession"), <<>>)
        ELSE \E r \in Failed \cup NoRecord \cup {ok} :
               /\ IF r = ok /\ r.k = "list"
                  THEN /\ sessions' = sessions \cup {created}
                       /\ UNCHANGED <<users, accounts, tokens, nextUserId,
                                      nextAccountId>>
                  ELSE UNCHANGED backend
               /\ Finish(0, "createSession", arg, r,
                         CreateSessionResult(r), <<"addSession">>)
  /\ UNCHANGED spent

DeleteSession(sessionToken) ==
  /\ LET matching == {s \in sessions : s.sessionToken = sessionToken}
         ok == RespList(ToList(matching))
     IN \E r \in Failed \cup {ok} :
          /\ IF r = ok
             THEN /\ sessions' = sessions \ matching
                  /\ UNCHANGED <<users, accounts, tokens, nextUserId,
                                 nextAccountId>>
             ELSE UNCHANGED backend
          /\ Finish(0, "deleteSession", [sessionToken |-> sessionToken], r,
                    DeleteSessionResult(r), <<"deleteSession">>)
  /\ UNCHANGED spent

\* spent: the pairs whose record a useVerificationToken call has returned and
\* that no createVerificationToken has stored again since
CreateVerificationToken(pair) ==
  LET created == [pair |-> pair]
      ok == RespList(<<Value(created)>>)
  IN \E r \in Failed \cup NoRecord \cup {ok} :
       /\ IF r = ok
          THEN /\ tokens' = tokens \cup {created}
               /\ spent' = spent \ {pair}
               /\ UNCHANGED <<users, accounts, sessions, nextUserId,
                              nextAccountId>>
          ELSE UNCHANGED <<backend, spent>>
       /\ Finish(0, "createVerificationToken", [pair |-> pair], r,
                 CreateVerificationTokenResult(r), <<"addVerificationToken">>)

UseVerificationToken(pair) ==
  LET matching == UseVerificationTokenDeletes(pair)
      ok == RespList(ToList({t \in tokens : t.pair = pair}))
  IN \E r \in Failed \cup {ok} :
       /\ IF r = ok
          THEN /\ tokens' = tokens \ matching
               /\ spent' = IF UseVerificationTokenResult(r).k = "value"
                           THEN spent \cup {pair} ELSE spent
               /\ UNCHANGED <<users, accounts, sessions, nextUserId,
                              nextAccountId>>
          ELSE UNCHANGED <<backend, spent>>
       /\ Finish(0, "useVerificationToken", [pair |-> pair], r,
                 UseVerificationTokenResult(r), <<"deleteVerificationToken">>)

----------------------------------------------------------------------------
(* deleteUser: fetch, delete, cascade.  pc names the request the invocation *)
(* issues next.                                                             *)


\* variant: the fetched user is returned without the delete being issued
AfterFetch_ReturnsFetched(r) ==
  IF r.k = "throw" THEN [next |-> "done", out |-> r]
  ELSE IF IsFalsy(FetchedUser(r)) THEN [next |-> "done", out |-> Null]
  ELSE [next |-> "done", out |-> FetchedUser(r)]

\* variant: the not-found check is left out
AfterFetch_NoNullCheck(r) ==
  IF r.k = "throw" THEN [next |-> "done", out |-> r]
  ELSE [next |-> "delete", out |-> Undefined]

\* after the fetch: return null when the user is not found
AfterFetch(r) ==
  IF r.k = "throw" THEN [next |-> "done", out |-> r]
  ELSE IF IsFalsy(FetchedUser(r)) THEN [next |-> "done", out |-> Null]
  ELSE [next |-> "delete", out |-> Undefined]


\* variant: the check of the deleted record is left out
AfterDelete_NoCheck(r, accountIds, sessionTokens) ==
  IF r.k = "throw" THEN [next |-> "done", out |-> r]
  ELSE IF CascadeNeeded(accountIds, sessionTokens)
       THEN [next |-> "cascade", out |-> Undefined]
  ELSE [next |-> "done", out |-> DeletedUser(r)]

\* after the delete: throw when nothing was deleted, cascade when the fetched
\* user had accounts or sessions, else return the deleted user
AfterDelete(r, accountIds, sessionTokens) ==
  IF r.k = "throw" THEN [next |-> "done", out |-> r]
  ELSE IF IsFalsy(DeletedUser(r))
       THEN [next |-> "done", out |-> Throw("Failed to delete user")]
  ELSE IF CascadeNeeded(accountIds, sessionTokens)
       THEN [next |-> "cascade", out |-> Undefined]
  ELSE [next |-> "done", out |-> DeletedUser(r)]

\* after the cascade: return the deleted user
AfterCascade(r, deletedUser) ==
  [next |-> "done", out |-> CascadeResult(r, deletedUser)]

\* what is recorded of a finished deleteUser invocation besides its argument:
\* whether it ran alone, and what its fetch saw linked to the user
DeleteUserArg(call) ==
  [id |-> call.userId, solo |-> call.solo, keys |-> call.keys,
   accountIds |-> call.accountIds, sessionTokens |-> call.sessionTokens]

\* the invocation moves on after a request: to its next request or to its end
Advance(self, call, r, step) ==
  IF step.next = "done"
  THEN Finish(self, "deleteUser", DeleteUserArg(call), r, step.out, call.log)
  ELSE /\ calls' = [c \in CallIds |->
                      IF c = self THEN [call EXCEPT !.pc = step.next]
                      ELSE Disturbed(calls[c])]
       /\ UNCHANGED <<last, returned>>

DeleteUserFetch(self, userId) ==
  /\ calls[self].pc = "idle"
  /\ \E r \in Failed \cup {QueryUserWithLinks(userId)} :
       LET user == FetchedUser(r)
           found == r.k # "throw" /\ ~IsFalsy(user)
           call == [pc |-> "idle", userId |-> userId,
                    accountIds |-> IF found THEN user.v.accounts ELSE {},
                    sessionTokens |-> IF found THEN user.v.sessions ELSE {},
                    keys |-> KeysOf(userId), user |-> Null,
                    log |-> <<"fetch">>, solo |-> TRUE]
       IN Advance(self, call, r, AfterFetch(r))
  /\ UNCHANGED <<backend, spent>>

DeleteUserDelete(self) ==
  /\ calls[self].pc = "delete"
  /\ LET old == calls[self]
         deleted == {u \in users : u.id \in DeleteUserVars(old.userId)}
     IN \/ \E r \in Failed :
             /\ UNCHANGED backend
             /\ Advance(self, [old EXCEPT !.log = Append(@, "delete")], r,
                        AfterDelete(r, old.accountIds, old.sessionTokens))
        \/ LET r == RespList(SortById(deleted))
           IN /\ users' = users \ deleted
              /\ UNCHANGED <<accounts, sessions, tokens, nextUserId, nextAccountId>>
              /\ Advance(self, [old EXCEPT !.log = Append(@, "delete"),
                                           !.user = DeletedUser(r)], r,
                         AfterDelete(r, old.accountIds, old.sessionTokens))
  /\ UNCHANGED spent

DeleteUserCascade(self) ==
  /\ calls[self].pc = "cascade"
  /\ LET old == calls[self]
         call == [old EXCEPT !.log = Append(@, "cascade")]
         v == CascadeVars(old.accountIds, old.sessionTokens)
     IN \/ \E r \in Failed :
             /\ UNCHANGED backend
             /\ Advance(self, call, r, AfterCascade(r, old.user))
        \/ /\ accounts' = {a \in accounts : a.id \notin v.accountIds}
           /\ sessions' = {s \in sessions : s.sessionToken \notin v.sessionTokens}
           /\ UNCHANGED <<users, tokens, nextUserId, nextAccountId>>
           /\ Advance(self, call, RespNoList, AfterCascade(RespNoList, old.user))
  /\ UNCHANGED spent

----------------------------------------------------------------------------
(* Specification *)

UserInputs == [id : AnyUserIds, email : Emails]
AccountInputs == [userId : AnyUserIds, key : AccountKeys]
SessionInputs == [sessionToken : SessionTokens,
                  userId : {Undefined} \cup {Value(i) : i \in AnyUserIds}]

Next ==
  \/ \E user \in UserInputs : CreateUser(user)
  \/ \E id \in AnyUserIds : GetUser(id)
  \/ \E email \in Emails : GetUserByEmail(email)
  \/ \E key \in AccountKeys : GetUserByAccount(key)
  \/ \E user \in UserInputs : UpdateUser(user)
  \/ \E account \in AccountInputs : LinkAccount(account)
  \/ \E key \in AccountKeys : UnlinkAccount(key)
  \/ \E sessionToken \in SessionTokens : GetSessionAndUser(sessionToken)
  \/ \E session \in SessionInputs : CreateSession(session)
  \/ \E sessionToken \in SessionTokens : DeleteSession(sessionToken)
  \/ \E pair \in TokenPairs : CreateVerificationToken(pair)
  \/ \E pair \in TokenPairs : UseVerificationToken(pair)
  \/ \E self \in CallIds, userId \in AnyUserIds : DeleteUserFetch(self, userId)
  \/ \E self \in CallIds : DeleteUserDelete(self)
  \/ \E self \in CallIds : DeleteUserCascade(self)

Spec == Init /\ [][Next]_vars

\* deleteUser invocations racing with the operations that create users and
\* link accounts and sessions to them
NextDelete ==
  \/ \E user \in UserInputs : CreateUser(user)
  \/ \E account \in AccountInputs : LinkAccount(account)
  \/ \E session \in SessionInputs : CreateSession(session)
  \/ \E self \in CallIds, userId \in AnyUserIds : DeleteUserFetch(self, userId)
  \/ \E self \in CallIds : DeleteUserDelete(self)
  \/ \E self \in CallIds : DeleteUserCascade(self)

SpecDelete == Init /\ [][NextDelete]_vars

\* the reads, over every backend state the writes and deleteUser produce
NextRead ==
  \/ NextDelete
  \/ \E id \in AnyUserIds : GetUser(id)
  \/ \E email \in Emails : GetUserByEmail(email)
  \/ \E key \in AccountKeys : GetUserByAccount(key)
  \/ \E sessionToken \in SessionTokens : GetSessionAndUser(sessionToken)

SpecRead == Init /\ [][NextRead]_vars

\* the verification tokens, with other operations in between
NextToken ==
  \/ \E pair \in TokenPairs : CreateVerificationToken(pair)
  \/ \E pair \in TokenPairs : UseVerificationToken(pair)
  \/ \E user \in UserInputs : CreateUser(user)
  \/ \E session \in SessionInputs : CreateSession(session)
  \/ \E sessionToken \in SessionTokens : DeleteSession(sessionToken)

SpecToken == Init /\ [][NextToken]_vars

----------------------------------------------------------------------------
(* Properties *)

\* how many times a request occurs in a log
Count(log, req) == Cardinality({i \in DOMAIN log : log[i] = req})

NoUser(id) == \A u \in users : u.id # id

\* C1: a deleteUser(id) that ran with no other operation interleaved and
\* returned the deleted user leaves getUser(id) answering not-found and
\* getUserByAccount answering null for every account linked to the user
\* before the call.
C1_DeletedUserIsGone ==
  (last.op = "deleteUser" /\ last.out.k = "value" /\ last.arg.solo) =>
    /\ GetUserResult(QueryGetUser(last.arg.id)) = Null
    /\ \A key \in last.arg.keys :
         GetUserByAccountResult(QueryAccountUser(key)) = Null

C1_Witness ==
  /\ last.op = "deleteUser" /\ last.out.k = "value" /\ last.arg.solo
  /\ last.arg.keys # {} /\ last.arg.sessionTokens # {}
  /\ Len(last.log) = 3

\* C2: once deleteUser(u) has returned the deleted user and every call has
\* finished, the backend holds no account and no session whose user is u.
C2_NoOrphans ==
  (/\ last.op = "deleteUser" /\ last.out.k = "value"
   /\ \A c \in CallIds : calls[c].pc = "idle") =>
    /\ \A a \in accounts : a.userId # last.arg.id
    /\ \A s \in sessions : s.userId # last.arg.id

\* C3: verification tokens are single-use.  A useVerificationToken that the
\* transport answers returns the record of a stored pair and removes it, and
\* returns null for a pair that an earlier use has returned and that has not
\* been created again since.
C3_SingleUse ==
  [][\A pair \in TokenPairs :
       (last'.err = "none" /\ UseVerificationToken(pair)) =>
         /\ [pair |-> pair] \in tokens => last'.out = Value([pair |-> pair])
         /\ [pair |-> pair] \notin tokens'
         /\ pair \in spent => last'.out = Null]_vars

C3_Witness ==
  /\ last.op = "useVerificationToken" /\ last.err = "none"
  /\ last.out = Null /\ last.arg.pair \in spent

\* C4: createSession with userId undefined throws without any request
\* reaching the transport and leaves the backend unchanged, whatever the
\* sessionToken.
C4_CreateSessionFailsFast ==
  [][\A session \in SessionInputs :
       (session.userId = Undefined /\ CreateSession(session)) =>
         /\ last'.out = Throw("userId is undefined in createSession")
         /\ last'.log = <<>>
         /\ UNCHANGED backend]_vars

C4_Witness ==
  /\ last.op = "createSession" /\ last.arg.userId = Undefined
  /\ last.out.k = "throw" /\ last.log = <<>>

InsertUpdateOps ==
  {"createUser", "updateUser", "linkAccount", "createSession",
   "createVerificationToken"}

\* C5: an insert or update operation either returns a record or throws; it
\* never returns undefined or null.
C5_WritesNeverReturnNothing ==
  last.op \in InsertUpdateOps => last.out.k \in {"value", "throw"}

\* C6 (as stated): every invocation performs one or two round trips, none of
\* them issued twice.
C6_OneOrTwoRoundTrips ==
  last.op # "none" =>
    /\ Len(last.log) \in {1, 2}
    /\ \A i \in DOMAIN last.log : Count(last.log, last.log[i]) = 1

IsPrefix(log, full) ==
  Len(log) <= Len(full) /\ \A i \in DOMAIN log : log[i] = full[i]

\* C6 (amended): every invocation performs at most three round trips, one
\* after another and none issued twice: none only for a createSession with
\* userId undefined, three only for a deleteUser whose fetch found linked
\* accounts or sessions (fetch, delete, cascade in that order), one or two
\* otherwise.
C6_AtMostThreeRoundTrips ==
  /\ last.op # "none" =>
       /\ Len(last.log) <= 3
       /\ \A i \in DOMAIN last.log : Count(last.log, last.log[i]) = 1
       /\ Len(last.log) = 0 =>
            last.op = "createSession" /\ last.arg.userId = Undefined
       /\ Len(last.log) = 3 =>
            /\ last.op = "deleteUser"
            /\ last.arg.accountIds # {} \/ last.arg.sessionTokens # {}
       /\ last.op = "deleteUser" =>
            IsPrefix(last.log, <<"fetch", "delete", "cascade">>)
       /\ last.op \notin {"deleteUser", "createSession"} => Len(last.log) = 1
  /\ \A c \in CallIds :
       /\ IsPrefix(calls[c].log, <<"fetch", "delete">>)
       /\ calls[c].pc = "delete" => calls[c].log = <<"fetch">>
       /\ calls[c].pc = "cascade" =>
            /\ calls[c].log = <<"fetch", "delete">>
            /\ calls[c].accountIds # {} \/ calls[c].sessionTokens # {}

C6_Witness ==
  /\ last.op = "deleteUser" /\ last.log = <<"fetch", "delete", "cascade">>
  /\ last.out.k = "value"

\* C7: a deleteUser whose fetch finds no user returns null without throwing,
\* issues neither the delete nor the cascade request, and leaves the users,
\* accounts and sessions of the backend unchanged.
C7_DeleteUserNotFound ==
  [][\A self \in CallIds, userId \in AnyUserIds :
       (NoUser(userId) /\ calls[self].pc = "idle"
        /\ DeleteUserFetch(self, userId)) =>
         /\ calls'[self].pc = "idle"
         /\ last'.op = "deleteUser" /\ last'.arg.id = userId
         /\ last'.log = <<"fetch">>
         /\ last'.err = "none" => last'.out = Null
         /\ UNCHANGED <<users, accounts, sessions>>]_vars

C7_Witness ==
  /\ last.op = "deleteUser" /\ last.err = "none" /\ last.out = Null
  /\ last.log = <<"fetch">> /\ NoUser(last.arg.id)
  /\ accounts # {} /\ sessions # {}

\* C8: a read for which nothing matches returns exactly null and does not
\* throw: getUser for an unknown id, getUserByEmail for an unknown email,
\* getUserByAccount for an unknown account, getSessionAndUser when no session
\* has the token or the session's user is missing.
C8_ReadsReturnNull ==
  [][/\ \A id \in AnyUserIds :
          (NoUser(id) /\ last'.err = "none" /\ GetUser(id)) =>
            last'.out = Null
     /\ \A email \in Emails :
          ((\A u \in users : u.email # email) /\ last'.err = "none"
           /\ GetUserByEmail(email)) =>
            last'.out = Null
     /\ \A key \in AccountKeys :
          ((\A a \in accounts : a.key # key) /\ last'.err = "none"
           /\ GetUserByAccount(key)) =>
            last'.out = Null
     /\ \A sessionToken \in SessionTokens :
          ((\A s \in sessions :
              s.sessionToken = sessionToken => NoUser(s.userId))
           /\ last'.err = "none" /\ GetSessionAndUser(sessionToken)) =>
            last'.out = Null]_vars

C8_Witness ==
  /\ last.op = "getSessionAndUser" /\ last.out = Null /\ last.err = "none"
  /\ \E s \in sessions :
       s.sessionToken = last.arg.sessionToken /\ NoUser(s.userId)

\* C9: when the fetch of a deleteUser found the user but its delete request
\* deletes no record, the call throws "Failed to delete user" without
\* issuing the cascade request, and the accounts and sessions are left as
\* they were.
C9_DeleteReportsNothing ==
  [][\A self \in CallIds :
       (calls[self].pc = "delete" /\ NoUser(calls[self].userId)
        /\ DeleteUserDelete(self)) =>
         /\ calls'[self].pc = "idle"
         /\ last'.op = "deleteUser" /\ last'.arg.id = calls[self].userId
         /\ last'.log = <<"fetch", "delete">>
         /\ last'.err = "none" => last'.out = Throw("Failed to delete user")
         /\ UNCHANGED <<accounts, sessions>>]_vars

C9_Witness ==
  /\ last.op = "deleteUser" /\ last.out = Throw("Failed to delete user")
  /\ last.log = <<"fetch", "delete">>
  /\ last.arg.accountIds # {} /\ last.arg.sessionTokens # {}
  /\ \E a \in accounts : a.id \in last.arg.accountIds
  /\ \E s \in sessions : s.sessionToken \in last.arg.sessionTokens

\* C10: when the cascade request of a deleteUser fails, it has been issued
\* exactly once, the deleted user is not restored, and the call ends in the
\* transport's error, unchanged, instead of returning the deleted user.
C10_CascadeFailure ==
  (/\ last.op = "deleteUser" /\ last.err # "none"
   /\ Len(last.log) > 0 /\ last.log[Len(last.log)] = "cascade") =>
    /\ Count(last.log, "cascade") = 1
    /\ last.out = Throw(last.err)
    /\ NoUser(last.arg.id)

C10_Witness ==
  /\ last.op = "deleteUser" /\ last.err \in TransportErrors
  /\ last.log = <<"fetch", "delete", "cascade">>
  /\ last.out.k = "throw"
  /\ \E a \in accounts : a.id \in last.arg.accountIds

\* C11: of the deleteUser calls for one user id, however their requests
\* interleave, at most one returns the deleted user record; every other one
\* that the transport answers either returns null after its fetch found no
\* user, or throws "Failed to delete user" after its own delete request
\* deleted nothing.
C11_AtMostOneReturns ==
  /\ \A id \in AnyUserIds : returned[id] <= 1
  /\ (last.op = "deleteUser" /\ last.err = "none") =>
       \/ last.out.k = "value" /\ returned[last.arg.id] = 1
       \/ last.out = Null /\ last.log = <<"fetch">>
       \/ /\ last.out = Throw("Failed to delete user")
          /\ last.log = <<"fetch", "delete">>

C11_Witness ==
  /\ last.op = "deleteUser" /\ last.err = "none"
  /\ last.out = Throw("Failed to delete user")
  /\ returned[last.arg.id] = 1
  /\ ~last.arg.solo

====
